---- MODULE Spec2Model ----
(***************************************************************************)
(* Rate governance of TwitchIO.                                            *)
(*                                                                         *)
(*   - the chat send path: twitchio/abcs.py (IRCLimiterMapping and         *)
(*     Messageable.send) on top of the cooldowns.RateBucket it imports;    *)
(*   - the module-level HTTP RateBucket and the update_bucket decorator    *)
(*     of twitchio/http.py;                                                *)
(*   - the HTTP Retry/Backoff Engine and its Bucket, which are not part    *)
(*     of the source tree at hand and are modelled from the design text;   *)
(*   - the stream queries of twitchio/client.py and HTTPSession._get of    *)
(*     twitchio/http.py, which follows the cursors of a paginated answer;  *)
(*   - the Pagination Aggregator with a limit, modelled from the design    *)
(*     text as well.                                                       *)
(*                                                                         *)
(* Strings the code inspects (message content) are sequences of            *)
(* one-character strings; a transport line is the sequence of the pieces   *)
(* the f-string concatenates.  Time is in seconds.                         *)
(***************************************************************************)
EXTENDS Integers, Sequences, FiniteSets, TLC

VARIABLES
    now,        \* time.time()
    buckets,    \* limiter.buckets: dict channel -> RateBucket
    emitted,    \* per channel, lines written in the bucket's current window
    call,       \* the arguments of the most recent operation
    result,     \* how the most recent operation ended
    ws,         \* the lines the most recent operation wrote to the websocket
    rates,      \* http.rates, the module-level RateBucket of http.py
    apiResult,  \* how the most recent decorated API call ended
    apiCalls,   \* wrapped requests invoked in the current refresh window
    bucket,     \* HTTPSession._bucket of the retry engine
    req,        \* the logical request the retry engine is executing
    fetch,      \* the HTTPSession._get call in progress
    agg,        \* the paginated call the aggregator is executing
    probe,      \* the arguments of the most recent direct bucket.update
    hook,       \* WebhookEventDispatcher.__instances and the notification in progress
    senders     \* the send coroutines of the event loop, and the sends counted per window

chatVars == <<buckets, emitted, call, result, ws>>
ratesVars == <<rates, apiResult, apiCalls>>
retryVars == <<bucket, req>>
fetchVars == <<fetch>>
aggVars == <<agg>>
probeVars == <<probe>>
hookVars == <<hook>>
senderVars == <<senders>>
vars == <<now, buckets, emitted, call, result, ws, rates, apiResult, apiCalls, bucket, req,
          fetch, agg, probe, hook, senders>>

(***************************************************************************)
(* Bounds of the model.                                                    *)
(***************************************************************************)
MaxTime == 30
TickStep == 15
MaxTokens == 102
MaxChatTokens == 1
MaxHttpTime == 75
MaxOverdraft == 2
MaxRetryTime == 105
ResetIn == 10
MaxRequests == 1
MaxPages == 3
MaxPageLen == 2
MaxChannels == 2
MaxFetches == 1
MaxRecords == 237
MaxLimit == 200
MaxLiveTime == 30
MaxWindowRequests == 30
MaxSenderTokens == 3
MaxDispatchers == 2
MaxNotifications == 1

(***************************************************************************)
(* str helpers.                                                            *)
(***************************************************************************)
startswith(s, p) == Len(s) >= Len(p) /\ SubSeq(s, 1, Len(p)) = p

RECURSIVE lstrip(_, _)
lstrip(s, c) == IF s # <<>> /\ Head(s) = c THEN lstrip(Tail(s), c) ELSE s

replace(s, old, new) == [i \in 1..Len(s) |-> IF s[i] = old THEN new ELSE s[i]]

(***************************************************************************)
(* Messageable.__invalid__                                                 *)
(***************************************************************************)
invalid_commands ==
    { <<"b","a","n">>, <<"u","n","b","a","n">>, <<"t","i","m","e","o","u","t">>,
      <<"w">>, <<"c","o","l","o","u","r">>, <<"c","o","l","o","r">>, <<"m","o","d">>,
      <<"u","n","m","o","d">>, <<"c","l","e","a","r">>,
      <<"s","u","b","s","c","r","i","b","e","r","s">>,
      <<"s","u","b","s","c","r","i","b","e","r","o","f","f">>,
      <<"s","l","o","w">>, <<"s","l","o","w","o","f","f">>,
      <<"r","9","k">>, <<"r","9","k","o","f","f">>,
      <<"e","m","o","t","e","o","n","l","y">>,
      <<"e","m","o","t","e","o","n","l","y","o","f","f">>,
      <<"h","o","s","t">>, <<"u","n","h","o","s","t">> }

(***************************************************************************)
(* cooldowns.RateBucket, the bucket behind the chat path.                  *)
(***************************************************************************)
TOKENS == 30
REFRESH == 60
IRCLIMIT == 20
MODLIMIT == 100
HTTPLIMIT == 30
IRC == 30
HTTP == 60

NoHeader == -1

LimitOf(method) ==
    IF method = "mod" THEN MODLIMIT ELSE IF method = "irc" THEN IRCLIMIT ELSE HTTPLIMIT

WindowOf(method) == IF method \in {"irc", "mod"} THEN IRC ELSE HTTP

NewBucket(method, t) ==
    [method |-> method, limit |-> LimitOf(method), reset_time |-> WindowOf(method),
     tokens |-> 0, _reset |-> t + WindowOf(method)]

limited(b) == b.tokens = b.limit

\* the window is moved on but the tokens are kept
reset_KeepsTokens(b, t) == [b EXCEPT !._reset = t + b.reset_time]

reset(b, t) == [b EXCEPT !.tokens = 0, !._reset = t + b.reset_time]

\* a remaining count of 0 is taken for no count at all
update_TruthyRemaining(b, t, resetHdr, remainingHdr) ==
    LET b1 == IF b._reset <= t THEN reset(b, t) ELSE b
        b2 == IF resetHdr # NoHeader THEN [b1 EXCEPT !._reset = resetHdr] ELSE b1
    IN  IF remainingHdr # NoHeader /\ remainingHdr # 0
        THEN [b2 EXCEPT !.tokens = b2.limit - remainingHdr]
        ELSE [b2 EXCEPT !.tokens = b2.tokens + 1]

update(b, t, resetHdr, remainingHdr) ==
    LET b1 == IF b._reset <= t THEN reset(b, t) ELSE b
        b2 == IF resetHdr # NoHeader THEN [b1 EXCEPT !._reset = resetHdr] ELSE b1
    IN  IF remainingHdr # NoHeader
        THEN [b2 EXCEPT !.tokens = b2.limit - remainingHdr]
        ELSE [b2 EXCEPT !.tokens = b2.tokens + 1]

(***************************************************************************)
(* IRCLimiterMapping.get_bucket: the registry after the call; the bucket   *)
(* returned is the entry of `channel` in it.                               *)
(***************************************************************************)
\* the bucket is emptied when its class changes
reclassify_Emptied(b, method) ==
    IF b.method # method
    THEN [b EXCEPT !.method = method, !.tokens = 0,
                   !.limit = IF method = "mod" THEN MODLIMIT ELSE IRCLIMIT]
    ELSE b

reclassify(b, method) ==
    IF b.method # method
    THEN [b EXCEPT !.method = method,
                   !.limit = IF method = "mod" THEN MODLIMIT ELSE IRCLIMIT]
    ELSE b

\* a new bucket on every lookup
lookup_AlwaysNew(bs, channel, method, t) == NewBucket(method, t)

lookup(bs, channel, method, t) ==
    IF channel \in DOMAIN bs THEN bs[channel] ELSE NewBucket(method, t)

get_bucket(bs, channel, method, t) ==
    LET b == reclassify(lookup(bs, channel, method, t), method)
    IN  [c \in (DOMAIN bs) \cup {channel} |-> IF c = channel THEN b ELSE bs[c]]

(***************************************************************************)
(* Inputs of the chat path.                                                *)
(***************************************************************************)
Channels == {"c1", "c2"}
NoChannel == ""
Destinations == Channels \cup {NoChannel}
QuotaChannels == {"c1"}
Users == {"bob"}
SendMethods == {"Channel", "User"}
BucketMethods == {"irc", "mod"}

Hi == <<"h","i">>
TwoLines == <<"a","\n","b">>
DotBan == <<".","b","a","n"," ","x">>
SlashTimeout == <<"/","t","i","m","e","o","u","t"," ","x">>
DotShoutout == <<".","s","h","o","u","t","o","u","t"," ","x">>
Filler(n) == [i \in 1..n |-> "a"]

Contents == {Hi, TwoLines, DotBan, DotShoutout, Filler(500), Filler(501)}

\* commands: a prefix, a command word, and possibly an argument
Shoutout == <<"s","h","o","u","t","o","u","t">>
Wave == <<"w","a","v","e">>
Hosting == <<"h","o","s","t","i","n","g">>
OtherCommands == {Shoutout, Wave, Hosting}

CommandContents ==
    { <<p>> \o cmd \o arg :
        p \in {".", "/"}, cmd \in invalid_commands \cup OtherCommands,
        arg \in {<<>>, <<" ","x">>} }
    \cup {DotBan \o Filler(500)}

(***************************************************************************)
(* The lines of Messageable.send.                                          *)
(***************************************************************************)
ChannelLine(channel, content) ==
    <<"PRIVMSG #", channel, " :">> \o content \o <<"\r\n">>

WhisperLine(channel, user, content) ==
    <<"PRIVMSG #", channel, " :.w ", user, " ">> \o content \o <<"\r\n">>

\* only the dots are stripped
stripped_DotsOnly(content) == lstrip(content, ".")

\* the stripped content of a prefixed message, as line 115 computes it
stripped(content) == lstrip(lstrip(content, "."), "/")

\* line 114-118: is the message an unauthorised chat command
unauthorised(content) ==
    /\ (startswith(content, <<".">>) \/ startswith(content, <<"/">>))
    /\ \E cmd \in invalid_commands : startswith(stripped(content), cmd)

(***************************************************************************)
(* Inputs of the HTTP retry engine: the tasks that run requests and what   *)
(* the server may answer.                                                  *)
(***************************************************************************)
Tasks == {1, 2}
RetryTasks == {1}
Statuses == {200, 299, 300, 404, 429, 500, 504, 505}
Reasons == {"r1", "r2"}
Bodies == {"b1", "b2"}
Remaining == {NoHeader, 0}
ATTEMPTS == 5

\* an answer: a 2xx carries a body (JSON or text), any other status a reason
Responses ==
    { [status |-> st, reason |-> "OK", body |-> bd, json |-> js] :
        st \in {x \in Statuses : 200 <= x /\ x <= 299}, bd \in Bodies, js \in BOOLEAN }
    \cup
    { [status |-> st, reason |-> rs, body |-> "none", json |-> FALSE] :
        st \in {x \in Statuses : x < 200 \/ x > 299}, rs \in Reasons }

IdleRequest ==
    [pc |-> "idle", serial |-> 0, utilize |-> FALSE, attempt |-> 0, calls |-> 0, waits |-> 0,
     transients |-> 0, wake |-> 0, reason |-> "none",
     last |-> [status |-> 0, reason |-> "none", body |-> "none"],
     outcome |-> "none", error |-> [status |-> 0, reason |-> "none"],
     returned |-> "none", raw |-> FALSE]

NoCall == [op |-> "none", channel |-> NoChannel, content |-> <<>>]
Ok(status) == [status |-> status, channel |-> NoChannel, wait |-> 0]

\* no call of HTTPSession._get was made yet
Url(endpoint, channel, query) == [endpoint |-> endpoint, channel |-> channel, query |-> query]
NoCursor == <<>>
NoServer == [paginated |-> FALSE, sizes |-> <<>>]
IdleFetch ==
    [pc |-> "idle", op |-> "none", args |-> <<>>, call_url |-> Url("none", <<>>, <<>>),
     url |-> Url("none", <<>>, <<>>), server |-> NoServer, sent |-> <<>>, data |-> <<>>,
     cursor |-> NoCursor, outcome |-> "none", serial |-> 0]

\* no paginated call was made yet
NoLimit == -1
NoAnswers == [kind |-> "none", total |-> 0, eager |-> FALSE]
IdleAgg ==
    [pc |-> "idle", base |-> <<>>, params |-> <<>>, limit |-> NoLimit, server |-> NoAnswers,
     sent |-> <<>>, data |-> <<>>, cursor |-> NoCursor, outcome |-> "none", serial |-> 0]

\* bucket.update was not called directly yet
NoProbe == [reset |-> NoHeader, remaining |-> NoHeader, t |-> 0]

\* a send coroutine that is not running
IdleSender == [pc |-> "idle", channel |-> NoChannel, bucket |-> <<>>, line |-> <<>>]

\* no dispatcher was created and no notification received yet
Dispatchers == 1..MaxDispatchers
NoRequest == [topic |-> "none", json |-> "none", from_id |-> "none"]
IdleHook ==
    [pc |-> "idle", instances |-> {}, request |-> NoRequest, data |-> "none",
     registered |-> {}, pending |-> {}, order |-> <<>>,
     notified |-> [i \in Dispatchers |-> 0],
     event |-> [i \in Dispatchers |-> "none"],
     raised |-> [i \in Dispatchers |-> FALSE],
     errors |-> [i \in Dispatchers |-> 0],
     answer |-> "none", serial |-> 0]

Init ==
    /\ now = 0
    /\ buckets = << >>
    /\ emitted = [c \in Channels |-> 0]
    /\ call = NoCall
    /\ result = Ok("none")
    /\ ws = <<>>
    /\ rates = [tokens |-> TOKENS, refresh |-> 0]
    /\ apiResult = "none"
    /\ apiCalls = 0
    /\ bucket = NewBucket("http", 0)
    /\ req = [t \in Tasks |-> IdleRequest]
    /\ fetch = IdleFetch
    /\ agg = IdleAgg
    /\ probe = NoProbe
    /\ hook = IdleHook
    /\ senders = [task |-> [t \in Tasks |-> IdleSender],
                  passed |-> [c \in Channels |-> 0]]

(***************************************************************************)
(* The clock: time.time() moves on between two operations.                 *)
(***************************************************************************)
Advance(max) ==
    /\ now < max
    /\ now' = now + TickStep
    /\ UNCHANGED <<chatVars, ratesVars, retryVars, fetchVars, aggVars, probeVars, hookVars, senderVars>>

(***************************************************************************)
(* limiter.get_bucket(channel, method) called on its own.                  *)
(***************************************************************************)
GetBucket(channel, method) ==
    /\ buckets' = get_bucket(buckets, channel, method, now)
    /\ call' = [op |-> "get_bucket", channel |-> channel, content |-> <<>>]
    /\ result' = Ok(method)
    /\ ws' = <<>>
    /\ UNCHANGED <<now, emitted, ratesVars, retryVars, fetchVars, aggVars, probeVars, hookVars, senderVars>>

(***************************************************************************)
(* Messageable.send(content), for a messageable whose _get_channel() is    *)
(* (channel, user), whose _get_method() is method, and whose bot's is_mod  *)
(* in the channel cache is is_mod.                                         *)
(***************************************************************************)
\* lines 106-120: the checks made before the socket and the limiter are touched
validate(channel, content) ==
    IF channel = NoChannel THEN "InvalidChannel"
    ELSE IF Len(content) > 500 THEN "TooLong"
    ELSE IF unauthorised(content) THEN "UnAuthorised"
    ELSE "ok"

\* the checks are made after the bucket has been looked up
Reject_AfterLookup(channel, content, status) ==
    /\ call' = [op |-> "send", channel |-> channel, content |-> content]
    /\ result' = Ok(status)
    /\ ws' = <<>>
    /\ buckets' = get_bucket(buckets, channel, "irc", now)
    /\ UNCHANGED <<now, emitted, ratesVars, retryVars, fetchVars, aggVars, probeVars, hookVars, senderVars>>

\* the raise of lines 107, 110 and 118
Reject(channel, content, status) ==
    /\ call' = [op |-> "send", channel |-> channel, content |-> content]
    /\ result' = Ok(status)
    /\ ws' = <<>>
    /\ UNCHANGED <<now, buckets, emitted, ratesVars, retryVars, fetchVars, aggVars, probeVars, hookVars, senderVars>>

\* lines 125-128: the class the bucket is asked for
bucket_method(is_mod) == IF is_mod THEN "mod" ELSE "irc"

\* lines 133-135: the error raised when the bucket is limited
outcome(b, channel, t) ==
    IF limited(b)
    THEN [status |-> "RateLimited", channel |-> channel, wait |-> b._reset - t]
    ELSE Ok("sent")

\* the line is written whatever the bucket says
written_IgnoresLimit(b, method, channel, user, content) ==
    IF method # "User"
    THEN <<ChannelLine(channel, replace(content, "\n", " "))>>
    ELSE <<WhisperLine(channel, user, replace(content, "\n", " "))>>

\* lines 133-142: what the call writes to the websocket
written(b, method, channel, user, content) ==
    IF limited(b) THEN <<>>
    ELSE IF method # "User"
    THEN <<ChannelLine(channel, replace(content, "\n", " "))>>
    ELSE <<WhisperLine(channel, user, replace(content, "\n", " "))>>

\* the window rolls over but the send is not counted
accounted_NotCounted(b, t) == IF b._reset <= t THEN reset(b, t) ELSE b

\* lines 130-131: the bucket after the send is accounted
accounted(b, t) == update(b, t, NoHeader, NoHeader)

Send(channel, user, method, is_mod, content) ==
    IF validate(channel, content) # "ok"
    THEN Reject(channel, content, validate(channel, content))
    ELSE
        LET bs == get_bucket(buckets, channel, bucket_method(is_mod), now)
            rolled == bs[channel]._reset <= now
            b == accounted(bs[channel], now)
            before == IF rolled THEN 0 ELSE emitted[channel]
        IN  /\ buckets' = [bs EXCEPT ![channel] = b]
            /\ call' = [op |-> "send", channel |-> channel, content |-> content]
            /\ result' = outcome(b, channel, now)
            /\ ws' = written(b, method, channel, user, content)
            /\ emitted' = [emitted EXCEPT ![channel] = before + Len(ws')]
            /\ UNCHANGED <<now, ratesVars, retryVars, fetchVars, aggVars, probeVars, hookVars, senderVars>>

(***************************************************************************)
(* http.py: RateBucket.update_tokens and the update_bucket decorator.      *)
(***************************************************************************)
\* lines 19-27: the bucket after the call
update_tokens(r, t) ==
    LET r1 == IF r.tokens = TOKENS THEN [r EXCEPT !.refresh = t + REFRESH]
              ELSE IF r.refresh <= t THEN [tokens |-> TOKENS, refresh |-> t + REFRESH]
              ELSE r
    IN  [r1 EXCEPT !.tokens = r1.tokens - 1]

\* lines 29-30: does the call raise
exceeded(r) == r.tokens = 0

\* a new refresh window starts with this call
refreshed(r, t) == r.tokens = TOKENS \/ r.refresh <= t

\* lines 39-43: wrapper() of update_bucket around any API coroutine
ApiCall ==
    LET r == update_tokens(rates, now)
        before == IF refreshed(rates, now) THEN 0 ELSE apiCalls
    IN  /\ rates.tokens > -MaxOverdraft
        /\ rates' = r
        /\ apiResult' = IF exceeded(r) THEN "RateLimitExceeded" ELSE "called"
        /\ apiCalls' = IF exceeded(r) THEN before ELSE before + 1
        /\ UNCHANGED <<now, chatVars, retryVars, fetchVars, aggVars, probeVars, hookVars, senderVars>>

NextRates == Advance(MaxHttpTime) \/ ApiCall

SpecRates == Init /\ [][NextRates]_vars

(***************************************************************************)
(* The HTTP Retry/Backoff Engine, one logical request per task.            *)
(*   pc: idle, waiting (in waitUntilReset), calling (network call in       *)
(*   flight), sleeping (backoff), done.                                    *)
(***************************************************************************)
RECURSIVE pow(_, _)
pow(b, n) == IF n = 0 THEN 1 ELSE b * pow(b, n - 1)

\* every 5xx status is taken for a server-side failure
server_error_Any5xx(status) == 500 <= status /\ status <= 599

\* a server-side failure
server_error(status) == 500 <= status /\ status <= 504

transient(status) == server_error(status) \/ status = 429

\* the attempt budget is spent: the terminal "could not reach" failure
unreachable(r) ==
    [r EXCEPT !.pc = "done", !.outcome = "unreachable",
              !.error = [status |-> r.last.status, reason |-> r.reason]]

\* the call is performed whatever the bucket says
precheck_NoWait(r, b) == [r EXCEPT !.pc = "calling", !.calls = r.calls + 1]

\* the pre-attempt check: suspend on a limited bucket, else perform the call
precheck(r, b) ==
    IF r.utilize /\ limited(b)
    THEN [r EXCEPT !.pc = "waiting", !.wake = b._reset, !.waits = r.waits + 1]
    ELSE [r EXCEPT !.pc = "calling", !.calls = r.calls + 1]

\* one attempt too many
attempt_OneMore(r, b) == IF r.attempt >= ATTEMPTS + 1 THEN unreachable(r) ELSE precheck(r, b)

\* the top of the attempt loop
attempt(r, b) == IF r.attempt >= ATTEMPTS THEN unreachable(r) ELSE precheck(r, b)

\* a 5xx answer refreshes the bucket from the headers it carries, and counts nothing
refresh(b, t, resetHdr, remainingHdr) ==
    IF resetHdr = NoHeader /\ remainingHdr = NoHeader THEN b
    ELSE LET b1 == IF b._reset <= t THEN reset(b, t) ELSE b
             b2 == IF resetHdr # NoHeader THEN [b1 EXCEPT !._reset = resetHdr] ELSE b1
         IN  IF remainingHdr # NoHeader
             THEN [b2 EXCEPT !.tokens = b2.limit - remainingHdr] ELSE b2

\* the bucket after an answer
account(b, utilize, status, t, resetHdr, remainingHdr) ==
    IF ~utilize THEN b
    ELSE IF server_error(status) THEN refresh(b, t, resetHdr, remainingHdr)
    ELSE IF 200 <= status /\ status <= 299 THEN update(b, t, resetHdr, remainingHdr)
    ELSE IF resetHdr # NoHeader \/ remainingHdr # NoHeader
    THEN update(b, t, resetHdr, remainingHdr)
    ELSE b

\* the request after an answer, given the bucket after it
classify(r, b, t, status, reason, body, json) ==
    LET seen == [r EXCEPT !.last = [status |-> status, reason |-> reason, body |-> body]]
    IN  IF server_error(status)
        THEN [seen EXCEPT !.reason = reason, !.transients = r.transients + 1,
                          !.pc = "sleeping", !.wake = t + pow(2, r.attempt) + 1]
        ELSE IF 200 <= status /\ status <= 299
        THEN [seen EXCEPT !.pc = "done", !.outcome = "ok", !.returned = body,
                          !.raw = ~json]
        ELSE IF status = 429
        THEN IF r.utilize
             THEN attempt([seen EXCEPT !.reason = reason, !.transients = r.transients + 1,
                                       !.attempt = r.attempt + 1], b)
             ELSE [seen EXCEPT !.reason = reason, !.transients = r.transients + 1,
                               !.pc = "sleeping", !.wake = t + pow(3, r.attempt) + 1]
        ELSE [seen EXCEPT !.pc = "done", !.outcome = "failed",
                          !.error = [status |-> status, reason |-> reason]]

\* a caller starts a logical request
Request(t, utilize) ==
    /\ req[t].pc \in {"idle", "done"}
    /\ req' = [req EXCEPT ![t] = attempt([IdleRequest EXCEPT !.utilize = utilize,
                                                             !.serial = req[t].serial + 1],
                                         bucket)]
    /\ UNCHANGED <<now, bucket, chatVars, ratesVars, fetchVars, aggVars, probeVars, hookVars, senderVars>>

\* waitUntilReset returns: the window is over, the bucket is reset, the call is made
WaitReset(t) ==
    /\ req[t].pc = "waiting"
    /\ now >= req[t].wake
    /\ bucket' = reset(bucket, now)
    /\ req' = [req EXCEPT ![t] = [@ EXCEPT !.pc = "calling", !.calls = @ + 1]]
    /\ UNCHANGED <<now, chatVars, ratesVars, fetchVars, aggVars, probeVars, hookVars, senderVars>>

\* the server answers the call in flight
Respond(t, status, reason, body, json, resetHdr, remainingHdr) ==
    /\ req[t].pc = "calling"
    /\ bucket' = account(bucket, req[t].utilize, status, now, resetHdr, remainingHdr)
    /\ req' = [req EXCEPT ![t] = classify(@, bucket', now, status, reason, body, json)]
    /\ UNCHANGED <<now, chatVars, ratesVars, fetchVars, aggVars, probeVars, hookVars, senderVars>>

\* the backoff sleep is over: next attempt
SleepDone(t) ==
    /\ req[t].pc = "sleeping"
    /\ now >= req[t].wake
    /\ req' = [req EXCEPT ![t] = attempt([@ EXCEPT !.attempt = @ + 1], bucket)]
    /\ UNCHANGED <<now, bucket, chatVars, ratesVars, fetchVars, aggVars, probeVars, hookVars, senderVars>>

RetryRequest ==
    \E t \in RetryTasks, utilize \in BOOLEAN :
        req[t].serial < MaxRequests /\ Request(t, utilize)

RetryWaitReset == \E t \in RetryTasks : WaitReset(t)

RetryRespond ==
    \E t \in RetryTasks, resp \in Responses,
       resetHdr \in {NoHeader, now + ResetIn}, remainingHdr \in Remaining :
        Respond(t, resp.status, resp.reason, resp.body, resp.json, resetHdr, remainingHdr)

RetrySleepDone == \E t \in RetryTasks : SleepDone(t)

NextRetry ==
    Advance(MaxRetryTime) \/ RetryRequest \/ RetryWaitReset \/ RetryRespond \/ RetrySleepDone

SpecRetry == Init /\ [][NextRetry]_vars

TokensWithin(max) == \A c \in DOMAIN buckets : buckets[c].tokens <= max

(***************************************************************************)
(* SpecChat: every destination and every kind of content, few sends per    *)
(* window.  SpecQuota: one destination and one content, sends up to past   *)
(* the elevated limit.                                                     *)
(***************************************************************************)
ChatSend ==
    \E channel \in Destinations, user \in Users, method \in SendMethods,
       is_mod \in BOOLEAN, content \in Contents :
        Send(channel, user, method, is_mod, content) /\ TokensWithin(MaxChatTokens)'

ChatGetBucket ==
    \E channel \in Channels, method \in BucketMethods : GetBucket(channel, method)

NextChat == Advance(MaxTime) \/ ChatGetBucket \/ ChatSend

SpecChat == Init /\ [][NextChat]_vars

QuotaSend ==
    \E channel \in QuotaChannels, is_mod \in BOOLEAN :
        Send(channel, "bob", "Channel", is_mod, Hi) /\ TokensWithin(MaxTokens)'

QuotaGetBucket ==
    \E channel \in QuotaChannels, method \in BucketMethods : GetBucket(channel, method)

NextQuota == Advance(MaxTime) \/ QuotaGetBucket \/ QuotaSend

SpecQuota == Init /\ [][NextQuota]_vars

\* SpecCommands: every denylisted command, with either prefix, to one destination
CommandSend ==
    \E channel \in QuotaChannels \cup {NoChannel}, method \in SendMethods,
       content \in CommandContents :
        Send(channel, "bob", method, FALSE, content) /\ TokensWithin(MaxChatTokens)'

NextCommands == Advance(MaxTime) \/ CommandSend

SpecCommands == Init /\ [][NextCommands]_vars

\* SpecStandard: one destination where the bot is never a moderator
StandardSend ==
    \E channel \in QuotaChannels :
        Send(channel, "bob", "Channel", FALSE, Hi) /\ TokensWithin(MaxTokens)'

NextStandard == Advance(MaxTime) \/ StandardSend

SpecStandard == Init /\ [][NextStandard]_vars

(***************************************************************************)
(* client.py and http.py: the stream queries and HTTPSession._get, which   *)
(* follows the cursors of a paginated answer.  A url is its endpoint and   *)
(* the sequence of its query parameters; a parameter value and a cursor    *)
(* are sequences of characters.                                            *)
(***************************************************************************)
digit(d) == <<"0", "1", "2", "3", "4", "5", "6", "7", "8", "9">>[d + 1]

isdigit(s) == s # <<>> /\ \A i \in 1..Len(s) : \E d \in 0..9 : s[i] = digit(d)

\* int(channel) of a string of digits
RECURSIVE int(_)
int(s) ==
    IF s = <<>> THEN 0
    ELSE 10 * int(SubSeq(s, 1, Len(s) - 1)) + (CHOOSE d \in 0..9 : digit(d) = s[Len(s)])

\* the decimal form an f-string gives an int
RECURSIVE str(_)
str(n) == IF n < 10 THEN <<digit(n)>> ELSE Append(str(n \div 10), digit(n % 10))

lower(s) == [i \in 1..Len(s) |-> IF s[i] = "A" THEN "a" ELSE s[i]]

\* the objects a caller passes: an int, a str, or a list of these
IntArg(n) == [kind |-> "int", num |-> n, text |-> <<>>, items |-> <<>>]
StrArg(s) == [kind |-> "str", num |-> 0, text |-> s, items |-> <<>>]
ListArg(xs) == [kind |-> "list", num |-> 0, text |-> <<>>, items |-> xs]

\* the names and the ids found among the positional arguments
populate_channels(channels) ==
    LET strs == {i \in 1..Len(channels) : channels[i].kind = "str"}
        ints == {i \in 1..Len(channels) : channels[i].kind = "int"}
        names == {channels[i].text : i \in {k \in strs : ~isdigit(channels[k].text)}}
        ids == {int(channels[i].text) : i \in {k \in strs : isdigit(channels[k].text)}}
               \cup {channels[i].num : i \in ints}
    IN  [names |-> names, ids |-> ids,
         raises |-> Cardinality(names) + Cardinality(ids) > 100]

\* the orders in which a set may be listed
Orderings(S) ==
    {q \in [1..Cardinality(S) -> S] : \A i, j \in 1..Cardinality(S) : i # j => q[i] # q[j]}

Param(key, value) == [key |-> key, value |-> value]

\* lines 127-131: "&".join(ids + names) behind streams?
streams_url(ids, names) ==
    Url("streams", <<>>,
        [i \in 1..Len(ids) |-> Param("user_id", str(ids[i]))]
            \o [i \in 1..Len(names) |-> Param("user_login", names[i])])

\* line 60: url + f'&after={cursor}'
next_url(url, cursor) == [url EXCEPT !.query = Append(@, Param("after", cursor))]

\* the page replaces what was fetched before
extend_Replaced(data, more) == more

\* line 62: body['data'] += next_body['data']
extend(data, more) == data \o more

(***************************************************************************)
(* The remote service: a finite stream of pages, every page but the last   *)
(* with a cursor to the next one, or an answer without a pagination part.  *)
(***************************************************************************)
CursorOf(i) == <<"c">> \o str(i)
Record(i, j) == 10 * i + j
PageData(sizes, i) == [j \in 1..sizes[i] |-> Record(i, j)]

Paginated == {[paginated |-> TRUE, sizes |-> s] :
                s \in UNION {[1..n -> 0..MaxPageLen] : n \in 1..MaxPages}}
SinglePage == {server \in Paginated : Len(server.sizes) = 1}
Bare == {[paginated |-> FALSE, sizes |-> s] : s \in [1..1 -> 0..MaxPageLen]}

IsAfter(p) == p.key = "after"
IsFirst(p) == p.key = "first"

\* the page a request asks for: the first one, or the one its cursor leads to
Asked(server, url) ==
    LET afters == SelectSeq(url.query, IsAfter)
    IN  IF afters = <<>> THEN 1
        ELSE 1 + (CHOOSE i \in 1..Len(server.sizes) : CursorOf(i) = afters[Len(afters)].value)

Answer(server, url) ==
    LET i == Asked(server, url)
    IN  [paginated |-> server.paginated,
         data |-> PageData(server.sizes, i),
         cursor |-> IF server.paginated /\ i < Len(server.sizes) THEN CursorOf(i) ELSE NoCursor]

(***************************************************************************)
(* The fetch: pc is idle, first (line 56 awaits the first answer), next    *)
(* (line 61 awaits a further page) or done.                                *)
(***************************************************************************)
\* the call ended in an exception before any request
Raised(op, args, exception) ==
    [IdleFetch EXCEPT !.pc = "done", !.op = op, !.args = args, !.outcome = exception,
                      !.serial = fetch.serial + 1]

\* line 56: the first request is on its way
Started(op, args, url, server) ==
    [IdleFetch EXCEPT !.pc = "first", !.op = op, !.args = args, !.call_url = url,
                      !.url = url, !.server = server, !.sent = <<url>>,
                      !.serial = fetch.serial + 1]

\* lines 38-43: wrapper() of update_bucket around a query of the session
Decorated(op, args, url, raises, server) ==
    LET r == update_tokens(rates, now)
        before == IF refreshed(rates, now) THEN 0 ELSE apiCalls
    IN  /\ fetch.pc \in {"idle", "done"}
        /\ fetch.serial < MaxFetches
        /\ rates' = r
        /\ apiResult' = IF exceeded(r) THEN "RateLimitExceeded" ELSE "called"
        /\ apiCalls' = IF exceeded(r) THEN before ELSE before + 1
        /\ fetch' = IF exceeded(r) THEN Raised(op, args, "RateLimitExceeded")
                    ELSE IF raises THEN Raised(op, args, "TwitchHTTPException")
                    ELSE Started(op, args, url, server)
        /\ UNCHANGED <<now, chatVars, retryVars, aggVars, probeVars, hookVars, senderVars>>

\* client.py line 74: the sequence is handed over as one positional argument
get_streams(channels) == <<ListArg(channels)>>

\* TwitchClient.get_streams(channels), down to the first request of _get
GetStreams(channels, server) ==
    LET found == populate_channels(get_streams(channels))
    IN  \E ids \in Orderings(found.ids), names \in Orderings(found.names) :
            Decorated("get_streams", channels, streams_url(ids, names), found.raises, server)

\* TwitchClient.get_stream_by_name(channel)
GetStreamByName(channel, server) ==
    Decorated("get_stream_by_name", <<StrArg(channel)>>,
              Url("streams", <<>>, <<Param("user_login", channel)>>), FALSE, server)

\* TwitchClient.get_chatters(channel)
GetChatters(channel, server) ==
    Decorated("get_chatters", <<StrArg(channel)>>,
              Url("chatters", lower(channel), <<>>), FALSE, server)

\* lines 59-64: the loop test, the next request, or the return
follow(f) ==
    IF f.cursor # NoCursor
    THEN [f EXCEPT !.pc = "next", !.sent = Append(@, next_url(f.url, f.cursor))]
    ELSE [f EXCEPT !.pc = "done", !.outcome = "ok"]

\* lines 56-58: the first answer
FirstPage ==
    /\ fetch.pc = "first"
    /\ LET body == Answer(fetch.server, fetch.sent[Len(fetch.sent)])
       IN  fetch' = IF ~body.paginated
                    THEN [fetch EXCEPT !.pc = "done", !.outcome = "ok", !.data = body.data]
                    ELSE follow([fetch EXCEPT !.data = body.data, !.cursor = body.cursor])
    /\ UNCHANGED <<now, chatVars, ratesVars, retryVars, aggVars, probeVars, hookVars, senderVars>>

\* lines 61-63: a further page
NextPage ==
    /\ fetch.pc = "next"
    /\ LET next_body == Answer(fetch.server, fetch.sent[Len(fetch.sent)])
       IN  fetch' = follow([fetch EXCEPT !.data = extend(@, next_body.data),
                                         !.cursor = next_body.cursor])
    /\ UNCHANGED <<now, chatVars, ratesVars, retryVars, aggVars, probeVars, hookVars, senderVars>>

\* lines 65-70: the request in flight fails
FetchFails ==
    /\ fetch.pc \in {"first", "next"}
    /\ fetch' = [fetch EXCEPT !.pc = "done", !.outcome = "TwitchHTTPException"]
    /\ UNCHANGED <<now, chatVars, ratesVars, retryVars, aggVars, probeVars, hookVars, senderVars>>

ChannelArgs == {IntArg(1), IntArg(23), StrArg(<<"a">>), StrArg(<<"0", "7">>)}
ChannelLists == UNION {[1..n -> ChannelArgs] : n \in 1..MaxChannels}
ChannelNames == {<<"a">>, <<"A", "b">>}

PagesGetStreams == \E channels \in ChannelLists, server \in SinglePage : GetStreams(channels, server)

PagesGetStreamByName ==
    \E channel \in ChannelNames, server \in Paginated : GetStreamByName(channel, server)

PagesGetChatters == \E channel \in ChannelNames, server \in Bare : GetChatters(channel, server)

NextPages ==
    \/ PagesGetStreams \/ PagesGetStreamByName \/ PagesGetChatters
    \/ FirstPage \/ NextPage \/ FetchFails

SpecPages == Init /\ [][NextPages]_vars

(***************************************************************************)
(* The Pagination Aggregator with an optional limit, which is not part of  *)
(* the source tree at hand and is modelled from the design text: one       *)
(* logical call, one physical request per page through the retry engine.   *)
(* The remote service holds `total` records, numbered in its own order,    *)
(* serves at most `first` of them from the offset its cursor stands for,   *)
(* and answers legacy endpoints with plain text.                           *)
(***************************************************************************)
PAGE == 100

min(a, b) == IF a <= b THEN a ELSE b

\* every page is asked for in full
first_size_FullPage(limit, fetched) == PAGE

\* the size the `first` parameter asks for
first_size(limit, fetched) == IF limit = NoLimit THEN PAGE ELSE min(PAGE, limit - fetched)

\* the parameters of one iteration: the copy, then first, then after if a cursor is held
iteration(a) ==
    a.params \o <<Param("first", str(first_size(a.limit, Len(a.data))))>>
             \o (IF a.cursor # NoCursor THEN <<Param("after", a.cursor)>> ELSE <<>>)

\* the per-iteration parameters are removed again
IsBase(p) == ~IsFirst(p) /\ ~IsAfter(p)
base_of(params) == SelectSeq(params, IsBase)

\* one more physical request goes to the retry engine
invoke(a) ==
    [a EXCEPT !.pc = "calling", !.params = iteration(a), !.sent = Append(@, iteration(a))]

reached(a) == a.limit # NoLimit /\ Len(a.data) >= a.limit

AggAnswerOf(server, params) ==
    LET firsts == SelectSeq(params, IsFirst)
        afters == SelectSeq(params, IsAfter)
        size == IF firsts = <<>> THEN PAGE ELSE int(firsts[Len(firsts)].value)
        offset == IF afters = <<>> THEN 0 ELSE int(afters[Len(afters)].value)
        n == IF server.total - offset <= 0 THEN 0 ELSE min(size, server.total - offset)
    IN  [raw |-> server.kind = "text",
         data |-> [j \in 1..n |-> offset + j],
         cursor |-> IF offset + n < server.total \/ (server.eager /\ n > 0)
                    THEN str(offset + n) ELSE NoCursor]

\* the aggregator after the engine's answer to the request in flight
aggregate(a, body) ==
    IF body.raw THEN [a EXCEPT !.pc = "done", !.outcome = "raw"]
    ELSE IF body.data = <<>> THEN [a EXCEPT !.pc = "done", !.outcome = "ok"]
    ELSE LET held == [a EXCEPT !.data = @ \o body.data, !.params = base_of(@),
                               !.cursor = body.cursor]
         IN  IF reached(held) \/ held.cursor = NoCursor
             THEN [held EXCEPT !.pc = "done", !.outcome = "ok"]
             ELSE invoke(held)

\* a caller starts a paginated call
AggRequest(base, limit, server) ==
    /\ agg.pc \in {"idle", "done"}
    /\ agg.serial < MaxFetches
    /\ agg' = invoke([IdleAgg EXCEPT !.base = base, !.params = base, !.limit = limit,
                                     !.server = server, !.serial = agg.serial + 1])
    /\ UNCHANGED <<now, chatVars, ratesVars, retryVars, fetchVars, probeVars, hookVars, senderVars>>

\* the engine returns the answer to the request in flight
AggAnswer ==
    /\ agg.pc = "calling"
    /\ agg' = aggregate(agg, AggAnswerOf(agg.server, agg.sent[Len(agg.sent)]))
    /\ UNCHANGED <<now, chatVars, ratesVars, retryVars, fetchVars, probeVars, hookVars, senderVars>>

\* the engine fails the request in flight
AggFails ==
    /\ agg.pc = "calling"
    /\ agg' = [agg EXCEPT !.pc = "done", !.outcome = "failed"]
    /\ UNCHANGED <<now, chatVars, ratesVars, retryVars, fetchVars, probeVars, hookVars, senderVars>>

Totals == {0, 37, 100, 150, MaxRecords}
Limits == {NoLimit, 1, 37, 100, 101, 150, MaxLimit}
Structured == {[kind |-> "structured", total |-> n, eager |-> e] : n \in Totals, e \in BOOLEAN}
Text == {[kind |-> "text", total |-> 0, eager |-> FALSE]}
Bases == {<<>>, <<Param("user_login", <<"a">>)>>}

AggregateRequest ==
    \E base \in Bases, limit \in Limits, server \in Structured \cup Text :
        AggRequest(base, limit, server)

NextAggregate == AggregateRequest \/ AggAnswer \/ AggFails

SpecAggregate == Init /\ [][NextAggregate]_vars

(***************************************************************************)
(* The bucket on its own: update called with the headers of an answer.     *)
(***************************************************************************)
BucketUpdate(resetHdr, remainingHdr) ==
    /\ remainingHdr = NoHeader => bucket.tokens < bucket.limit + MaxOverdraft
    /\ bucket' = update(bucket, now, resetHdr, remainingHdr)
    /\ probe' = [reset |-> resetHdr, remaining |-> remainingHdr, t |-> now]
    /\ UNCHANGED <<now, req, chatVars, ratesVars, fetchVars, aggVars, hookVars, senderVars>>

Remainings == {NoHeader} \cup (0..HTTPLIMIT)

BucketUpdates ==
    \E resetHdr \in {NoHeader, now + ResetIn}, remainingHdr \in Remainings :
        BucketUpdate(resetHdr, remainingHdr)

NextBucket == Advance(MaxTime) \/ BucketUpdates

SpecBucket == Init /\ [][NextBucket]_vars

(***************************************************************************)
(* SpecLive: the retry engine under a clock that keeps running while a     *)
(* request waits for the window, and an event loop that resumes a waiting  *)
(* request once its time has come.                                         *)
(***************************************************************************)
Tick ==
    /\ now < MaxLiveTime \/ \E t \in Tasks : req[t].pc = "waiting" /\ now < req[t].wake
    /\ now' = now + TickStep
    /\ UNCHANGED <<chatVars, ratesVars, retryVars, fetchVars, aggVars, probeVars, hookVars, senderVars>>

LiveResponses ==
    { [status |-> 200, reason |-> "OK", body |-> "b1", json |-> TRUE] }
    \cup
    { [status |-> st, reason |-> "r1", body |-> "none", json |-> FALSE] : st \in {404, 429, 500} }

LiveRespond ==
    \E t \in RetryTasks, resp \in LiveResponses,
       resetHdr \in {NoHeader, now + ResetIn}, remainingHdr \in Remaining :
        Respond(t, resp.status, resp.reason, resp.body, resp.json, resetHdr, remainingHdr)

NextLive == Tick \/ RetryRequest \/ RetryWaitReset \/ LiveRespond \/ RetrySleepDone

SpecLive ==
    /\ Init /\ [][NextLive]_vars
    /\ WF_vars(Tick)
    /\ \A t \in RetryTasks : WF_vars(WaitReset(t))

(***************************************************************************)
(* ext/webhooks/blueprint.py: WebhookEventDispatcher.  A request is its    *)
(* topic, the shape of its JSON body (no 'data' key, 'data' empty, 'data'  *)
(* with one notification) and its from_id argument.  The event callbacks   *)
(* are the application's: each call returns or raises; the notification    *)
(* class may refuse the data it is built from.                             *)
(***************************************************************************)
NOTIFICATION_TYPE_BY_TOPIC ==
    [stream_changed |-> "StreamChangedNotification",
     user_changed |-> "UserChangedNotification",
     user_follows |-> "UserFollowsNotification"]

Topics == {"stream_changed", "user_changed", "user_follows", "unsupported"}
JsonBodies == {"no data key", "data empty", "data"}
FromIds == {"None", "1"}
Outcomes == {"returns", "callback raises", "notification raises"}

\* lines 127-138: the callback process_notification awaits
event_of(request, data) ==
    LET cls == NOTIFICATION_TYPE_BY_TOPIC[request.topic]
    IN  IF cls = "StreamChangedNotification"
        THEN IF data # "{}" THEN "event_stream_updated" ELSE "event_stream_offline"
        ELSE IF cls = "UserChangedNotification" THEN "event_user_updated"
        ELSE IF request.from_id = "None" THEN "event_following_user"
        ELSE "event_followed_by_user"

\* the loop is over, or goes on with the instances left
answered(h) == IF h.pending = {} THEN [h EXCEPT !.pc = "done", !.answer = "202"] ELSE h

\* an exception of the callback leaves process_notification
process_notification_Unguarded(h, i, ending) ==
    LET seen == [h EXCEPT !.pending = @ \ {i}, !.order = Append(@, i),
                          !.notified[i] = @ + 1,
                          !.event[i] = IF ending = "notification raises" THEN "none"
                                       ELSE event_of(h.request, h.data),
                          !.raised[i] = ending # "returns"]
    IN  IF ending = "returns" THEN answered(seen)
        ELSE [seen EXCEPT !.pc = "done", !.answer = "500"]

\* lines 105 and 112-141: one instance processes the notification
process_notification(h, i, ending) ==
    LET seen == [h EXCEPT !.pending = @ \ {i}, !.order = Append(@, i),
                          !.notified[i] = @ + 1,
                          !.event[i] = IF ending = "notification raises" THEN "none"
                                       ELSE event_of(h.request, h.data),
                          !.raised[i] = ending # "returns"]
    IN  IF ending = "returns" THEN answered(seen)
        ELSE answered([seen EXCEPT !.errors[i] = @ + 1])

\* lines 27-29: a dispatcher is created
Register(i) ==
    /\ hook.pc # "dispatching"
    /\ i \notin hook.instances
    /\ hook' = [hook EXCEPT !.instances = @ \cup {i}]
    /\ UNCHANGED <<now, chatVars, ratesVars, retryVars, fetchVars, aggVars, probeVars, senderVars>>

\* lines 96-102 and 107-110: a notification arrives
Notify(request) ==
    LET h == [IdleHook EXCEPT !.instances = hook.instances, !.request = request,
                              !.registered = hook.instances,
                              !.serial = hook.serial + 1]
    IN  /\ hook.pc # "dispatching"
        /\ hook.serial < MaxNotifications
        /\ hook' = IF request.topic \notin DOMAIN NOTIFICATION_TYPE_BY_TOPIC
                   THEN [h EXCEPT !.pc = "done", !.answer = "None"]
                   ELSE IF request.json = "no data key"
                   THEN [h EXCEPT !.pc = "done", !.answer = "400"]
                   ELSE answered([h EXCEPT !.pc = "dispatching",
                                           !.data = IF request.json = "data" THEN "data[0]"
                                                    ELSE "{}",
                                           !.pending = hook.instances])
        /\ UNCHANGED <<now, chatVars, ratesVars, retryVars, fetchVars, aggVars, probeVars, senderVars>>

\* lines 104-105: the next instance of the set is awaited
Process(i, ending) ==
    /\ hook.pc = "dispatching"
    /\ i \in hook.pending
    /\ hook' = process_notification(hook, i, ending)
    /\ UNCHANGED <<now, chatVars, ratesVars, retryVars, fetchVars, aggVars, probeVars, senderVars>>

HookRegister == \E i \in Dispatchers : Register(i)

HookNotify ==
    \E topic \in Topics, json \in JsonBodies, from_id \in FromIds :
        Notify([topic |-> topic, json |-> json, from_id |-> from_id])

HookProcess == \E i \in Dispatchers, ending \in Outcomes : Process(i, ending)

NextHooks == HookRegister \/ HookNotify \/ HookProcess

SpecHooks == Init /\ [][NextHooks]_vars

(***************************************************************************)
(* SpecConcurrent: two governed requests at a time on one session, which   *)
(* interleave at the suspension points of the engine (the quota wait and   *)
(* the network call); every answer is a 200 without rate-limit headers.    *)
(***************************************************************************)
ConcurrentRequest ==
    \E t \in Tasks : req[t].serial < MaxWindowRequests /\ Request(t, TRUE)

ConcurrentWaitReset == \E t \in Tasks : WaitReset(t)

ConcurrentRespond ==
    \E t \in Tasks : Respond(t, 200, "OK", "b1", TRUE, NoHeader, NoHeader)

NextConcurrent ==
    Advance(MaxHttpTime) \/ ConcurrentRequest \/ ConcurrentWaitReset \/ ConcurrentRespond

SpecConcurrent == Init /\ [][NextConcurrent]_vars

(***************************************************************************)
(* SpecSenders: Messageable.send as a coroutine of the event loop.  A task *)
(* runs lines 101-137 without suspension, then awaits ws.send (lines       *)
(* 139-142), where another task may run.  A task keeps the bucket it       *)
(* obtained as it was when the task suspended; `passed` counts, per        *)
(* channel, the sends that got past the validation in the bucket's window. *)
(***************************************************************************)
\* the task holds a copy of the bucket and stores it back after the write
resumed_StoresCopy(bs, channel, held) == [bs EXCEPT ![channel] = held]

\* lines 139-142: the registry when ws.send returns; the coroutine does not touch it
resumed(bs, channel, held) == bs

\* lines 101-140: the call up to the await of ws.send
SendBegin(t, channel, user, method, is_mod, content) ==
    /\ senders.task[t].pc = "idle"
    /\ validate(channel, content) = "ok"
    /\ LET bs == get_bucket(buckets, channel, bucket_method(is_mod), now)
           rolled == bs[channel]._reset <= now
           b == accounted(bs[channel], now)
           line == written(b, method, channel, user, content)
       IN  /\ buckets' = [bs EXCEPT ![channel] = b]
           /\ call' = [op |-> "send", channel |-> channel, content |-> content]
           /\ result' = outcome(b, channel, now)
           /\ ws' = <<>>
           /\ emitted' = [emitted EXCEPT ![channel] = IF rolled THEN 0 ELSE @]
           /\ senders' = [senders EXCEPT
                 !.passed[channel] = IF rolled THEN 1 ELSE @ + 1,
                 !.task[t] = IF line = <<>> THEN IdleSender
                             ELSE [pc |-> "writing", channel |-> channel, bucket |-> b,
                                   line |-> line]]
    /\ UNCHANGED <<now, ratesVars, retryVars, fetchVars, aggVars, probeVars, hookVars>>

\* lines 139-142: ws.send returns to the task
WriteDone(t) ==
    /\ senders.task[t].pc = "writing"
    /\ LET channel == senders.task[t].channel
       IN  /\ buckets' = resumed(buckets, channel, senders.task[t].bucket)
           /\ ws' = senders.task[t].line
           /\ emitted' = [emitted EXCEPT ![channel] = @ + 1]
    /\ senders' = [senders EXCEPT !.task[t] = IdleSender]
    /\ UNCHANGED <<now, call, result, ratesVars, retryVars, fetchVars, aggVars, probeVars,
                   hookVars>>

SendersBegin ==
    \E t \in Tasks, channel \in Channels, is_mod \in BOOLEAN :
        SendBegin(t, channel, "bob", "Channel", is_mod, Hi) /\ TokensWithin(MaxSenderTokens)'

SendersWriteDone == \E t \in Tasks : WriteDone(t)

NextSenders == Advance(MaxTime) \/ SendersBegin \/ SendersWriteDone

SpecSenders == Init /\ [][NextSenders]_vars

(***************************************************************************)
(* Vocabulary of the properties.                                           *)
(***************************************************************************)
Rejections == {"InvalidChannel", "TooLong", "UnAuthorised"}

\* the word that follows the one-character prefix, up to the first space
RECURSIVE FirstWord(_)
FirstWord(s) ==
    IF s = <<>> \/ Head(s) = " " THEN <<>> ELSE <<Head(s)>> \o FirstWord(Tail(s))

Prefixed(content) == content # <<>> /\ Head(content) \in {".", "/"}

CommandToken(content) == FirstWord(Tail(content))

SendDone == call.op = "send"

\* the most recent operation was a send that reached the limiter
Governed == SendDone /\ result.status \in {"sent", "RateLimited"}

\* a step that is an operation of the chat path, not the clock
ChatStep == now' = now /\ chatVars' # chatVars

(***************************************************************************)
(* C1. Within one quota window of a destination, the lines that send       *)
(* writes to the transport never number more than the limit of the         *)
(* destination's bucket: a send that is emitted leaves the window's count  *)
(* of emitted lines at or below the limit in effect.                       *)
(***************************************************************************)
C1_EmittedWithinLimit ==
    (SendDone /\ result.status = "sent")
        => emitted[call.channel] <= buckets[call.channel].limit

(***************************************************************************)
(* C2. A send whose bucket is limited right after update() fails with the  *)
(* rate-limit error naming the channel, and writes nothing; no later step  *)
(* writes a line on its behalf.                                            *)
(***************************************************************************)
C2_LimitedSendFails ==
    (Governed /\ limited(buckets[call.channel]))
        => /\ result.status = "RateLimited"
           /\ result.channel = call.channel
           /\ ws = <<>>

C2_Witness ==
    /\ Governed
    /\ limited(buckets[call.channel])
    /\ result.status = "RateLimited"
    /\ emitted[call.channel] = IRCLIMIT - 1

(***************************************************************************)
(* C3. A send rejected for an empty destination, for content longer than   *)
(* 500 characters or for a denylisted command leaves the registry and      *)
(* every bucket as they were, adds no registry entry and writes nothing.   *)
(***************************************************************************)
C3_RejectionFrame ==
    [][(ChatStep /\ call'.op = "send" /\ result'.status \in Rejections)
        => (buckets' = buckets /\ emitted' = emitted /\ ws' = <<>>)]_vars

C3_Witness ==
    /\ SendDone
    /\ result.status = "TooLong"
    /\ call.channel \notin DOMAIN buckets
    /\ \E c \in DOMAIN buckets : buckets[c].tokens > 0

(***************************************************************************)
(* C4. A content that begins with '.' or '/' and whose command token is on *)
(* the denylist is never written to the transport by send, and on a valid  *)
(* destination the send ends with the invalid-content error.               *)
(***************************************************************************)
C4_DenylistedRejected ==
    (SendDone /\ Prefixed(call.content) /\ CommandToken(call.content) \in invalid_commands)
        => /\ ws = <<>>
           /\ call.channel # NoChannel => result.status \in {"UnAuthorised", "TooLong"}

C4_Witness ==
    /\ SendDone
    /\ call.content = SlashTimeout
    /\ result.status = "UnAuthorised"
    /\ call.channel \in DOMAIN buckets

(***************************************************************************)
(* C5. A content that begins with '.' or '/' and whose command token is    *)
(* not on the denylist, sent within the length limit and the quota to a    *)
(* valid destination, is accepted and the line carries it unchanged.       *)
(***************************************************************************)
C5_OtherCommandsSent ==
    (/\ SendDone
     /\ Prefixed(call.content)
     /\ CommandToken(call.content) \notin invalid_commands
     /\ Len(call.content) <= 500
     /\ call.channel # NoChannel
     /\ result.status # "RateLimited")
        => /\ result.status = "sent"
           /\ \E u \in Users :
                ws \in { <<ChannelLine(call.channel, call.content)>>,
                         <<WhisperLine(call.channel, u, call.content)>> }

(***************************************************************************)
(* C6. get_bucket on a destination that already has a bucket keeps the     *)
(* bucket's tokens and window reset time; the class and the limit become   *)
(* those of the class asked for (irc 20, mod 100), and no other bucket     *)
(* changes.                                                                *)
(***************************************************************************)
C6_ReclassifyKeepsState ==
    [][(ChatStep /\ call'.op = "get_bucket" /\ call'.channel \in DOMAIN buckets)
        => LET c == call'.channel IN
           /\ buckets'[c].tokens = buckets[c].tokens
           /\ buckets'[c]._reset = buckets[c]._reset
           /\ buckets'[c].method = result'.status
           /\ buckets'[c].limit = (IF result'.status = "mod" THEN 100 ELSE 20)]_vars

\* a standard bucket that was limited at 20 tokens, now elevated
C6_Witness ==
    /\ call.op = "get_bucket"
    /\ call.channel \in DOMAIN buckets
    /\ buckets[call.channel].method = "mod"
    /\ buckets[call.channel].tokens = 20
    /\ emitted[call.channel] = 19
    /\ ~limited(buckets[call.channel])

(***************************************************************************)
(* C7. The registry keeps one bucket for each destination ever asked for:  *)
(* after a lookup the destination has an entry, no entry ever disappears,  *)
(* an entry is never replaced by a fresh bucket (a lookup leaves tokens    *)
(* and window of the entry as they were), and the entries of the other     *)
(* destinations are untouched.                                             *)
(***************************************************************************)
C7_RegistryPersists ==
    [][(ChatStep /\ (call'.op = "get_bucket" \/ result'.status \in {"sent", "RateLimited"}))
        => /\ DOMAIN buckets' = DOMAIN buckets \cup {call'.channel}
           /\ \A c \in DOMAIN buckets \ {call'.channel} : buckets'[c] = buckets[c]
           /\ (call'.op = "get_bucket" /\ call'.channel \in DOMAIN buckets)
                => /\ buckets'[call'.channel].tokens = buckets[call'.channel].tokens
                   /\ buckets'[call'.channel]._reset = buckets[call'.channel]._reset]_vars

C7_Witness ==
    /\ call.op = "get_bucket"
    /\ DOMAIN buckets = Channels
    /\ \A c \in Channels : buckets[c].tokens > 0
    /\ \E c, d \in Channels : buckets[c].method # buckets[d].method

\* task t performs a network call in this step
Issued(t) ==
    /\ req'[t].pc = "calling"
    /\ req[t].pc # "calling" \/ req'[t].calls # req[t].calls

(***************************************************************************)
(* C8. The retry engine never performs a network call while quota          *)
(* accounting is in use and the bucket is limited: at the moment a call is *)
(* issued the bucket is not limited, and a call issued out of a suspension *)
(* is issued no earlier than the window reset time it waited for.          *)
(***************************************************************************)
C8_NoCallWhileLimited ==
    [][\A t \in Tasks :
        (Issued(t) /\ req'[t].utilize)
            => /\ ~limited(bucket')
               /\ req[t].pc = "waiting" => now' >= req[t].wake]_vars

C8_Witness ==
    \E t \in Tasks :
        /\ req[t].pc = "calling"
        /\ req[t].utilize
        /\ req[t].waits > 0
        /\ req[t].last.status = 429
        /\ bucket.tokens = 0

(***************************************************************************)
(* C9. Exhausting the HTTP quota is never an error for the caller of a     *)
(* governed HTTP request: no decorated call ends with the rate-limit       *)
(* exception.                                                              *)
(***************************************************************************)
C9_QuotaNeverAnError == apiResult # "RateLimitExceeded"

(***************************************************************************)
(* C10. One logical request makes at most 5 network attempts.  A 2xx       *)
(* answer after k transient ones (k < 5) ends the request after exactly    *)
(* k + 1 attempts with the body of that answer; 5 transient answers end    *)
(* it with the unreachable-service error carrying the reason of the last   *)
(* answer, after exactly 5 attempts.                                       *)
(***************************************************************************)
C10_AttemptBudget ==
    \A t \in Tasks :
        LET r == req[t] IN
        /\ r.calls <= 5
        /\ (200 <= r.last.status /\ r.last.status <= 299)
             => /\ r.pc = "done" /\ r.outcome = "ok"
                /\ r.calls = r.transients + 1
                /\ r.returned = r.last.body
        /\ r.outcome = "ok" => (200 <= r.last.status /\ r.last.status <= 299)
        /\ r.transients = 5
             => /\ r.calls = 5
                /\ r.pc \in {"sleeping", "done"}
                /\ r.pc = "done" => (r.outcome = "unreachable" /\ r.error.reason = r.last.reason)
        /\ r.outcome = "unreachable"
             => /\ r.transients = 5
                /\ (500 <= r.last.status /\ r.last.status <= 504) \/ r.last.status = 429

\* four transient answers, then a success on the fifth attempt
C10_Witness ==
    \E t \in Tasks :
        /\ req[t].outcome = "ok"
        /\ req[t].calls = 5
        /\ req[t].transients = 4
        /\ req[t].returned = "b2"

(***************************************************************************)
(* C11. An answer whose status is neither 200-299, nor 500-504, nor 429    *)
(* ends the request on that attempt: it fails with an error carrying that  *)
(* status and the server's reason, and no further attempt is made,         *)
(* whatever the attempt index and the bucket state.                        *)
(***************************************************************************)
Permanent(status) ==
    /\ status # 0
    /\ ~(200 <= status /\ status <= 299)
    /\ ~(500 <= status /\ status <= 504)
    /\ status # 429

C11_PermanentFailure ==
    \A t \in Tasks :
        LET r == req[t] IN
        /\ Permanent(r.last.status)
             => /\ r.pc = "done" /\ r.outcome = "failed"
                /\ r.error = [status |-> r.last.status, reason |-> r.last.reason]
                /\ r.calls = r.transients + 1
        /\ r.outcome = "failed" => Permanent(r.last.status)

\* a 505 on the third attempt, with the bucket limited
C11_Witness ==
    \E t \in Tasks :
        /\ req[t].outcome = "failed"
        /\ req[t].last.status = 505
        /\ req[t].calls = 3
        /\ req[t].utilize
        /\ limited(bucket)

(***************************************************************************)
(* C12. A 429 received while quota accounting is in use is not slept on in *)
(* the handler, and the following attempt is held back by the bucket: the  *)
(* pre-check of the next attempt finds the bucket limited, so the request  *)
(* suspends until the window reset time instead of calling at once.        *)
(***************************************************************************)
C12_HeldBackAfter429 ==
    [][\A t \in Tasks :
        (/\ req[t].pc = "calling"
         /\ req'[t].utilize
         /\ req'[t].last.status = 429
         /\ req'[t].transients = req[t].transients + 1)
            => req'[t].pc \in {"waiting", "done"}]_vars

(***************************************************************************)
(* C16. On the chat path, where update() is called without headers, every  *)
(* send that reaches the limiter raises the token count of its bucket by   *)
(* exactly one while the window lasts, so the k-th update of a window      *)
(* leaves k more than the window started with; the first update at or      *)
(* after the reset time first clears the count and opens a new window, so  *)
(* the count then shows that one update only.                              *)
(***************************************************************************)
C16_CountsUpdates ==
    [][\A c \in Channels :
        (ChatStep /\ Governed' /\ call'.channel = c)
            => IF c \in DOMAIN buckets /\ buckets[c]._reset > now
               THEN /\ buckets'[c].tokens = buckets[c].tokens + 1
                    /\ buckets'[c]._reset = buckets[c]._reset
               ELSE /\ buckets'[c].tokens = 1
                    /\ buckets'[c]._reset = now + buckets'[c].reset_time]_vars

\* the third update of a window opened once the first window was over
C16_Witness ==
    /\ Governed
    /\ now >= IRC
    /\ buckets[call.channel]._reset = now + IRC
    /\ buckets[call.channel].tokens = 3
    /\ emitted[call.channel] = 3

\* a step in which the pre-attempt check of task t consulted the bucket
Prechecked(t) ==
    /\ req'[t].utilize
    /\ req[t].pc # "waiting"
    /\ req'[t].pc \in {"calling", "waiting"}
    /\ \/ req'[t].serial # req[t].serial
       \/ req'[t].calls # req[t].calls
       \/ req'[t].waits # req[t].waits

\* the limit check of a chat send sees a window that is still open
ChatConsultsOpenWindow ==
    \A c \in Channels :
        (ChatStep /\ Governed' /\ call'.channel = c) => buckets'[c]._reset > now'

\* the pre-attempt check of the HTTP engine sees a window that is still open
HttpConsultsOpenWindow ==
    \A t \in Tasks : Prechecked(t) => bucket'._reset > now'

(***************************************************************************)
(* C18. Wherever limited is consulted, in the limit check of a chat send   *)
(* and in the pre-attempt check of the HTTP engine, the window reset time  *)
(* of the bucket is strictly later than the current time: an expired       *)
(* bucket is reset before it is consulted.                                 *)
(***************************************************************************)
C18_ConsultedWindowOpen ==
    [][ChatConsultsOpenWindow /\ HttpConsultsOpenWindow]_vars

\* the records of the pages 1..n of a server, in the server's order
RECURSIVE Concat(_, _)
Concat(sizes, n) == IF n = 0 THEN <<>> ELSE Concat(sizes, n - 1) \o PageData(sizes, n)

Returned == fetch.pc = "done" /\ fetch.outcome = "ok"

(***************************************************************************)
(* C13. Against a server with n non-empty pages, every page but the last   *)
(* carrying a cursor, a fetch without limit issues exactly n requests and  *)
(* returns the concatenation of the n pages in the server's order, with    *)
(* nothing dropped, duplicated or reordered.                               *)
(***************************************************************************)
C13_AllPagesInOrder ==
    (/\ Returned
     /\ fetch.server.paginated
     /\ \A i \in 1..Len(fetch.server.sizes) : fetch.server.sizes[i] > 0)
        => /\ Len(fetch.sent) = Len(fetch.server.sizes)
           /\ fetch.data = Concat(fetch.server.sizes, Len(fetch.server.sizes))

\* three full pages fetched in three requests
C13_Witness ==
    /\ Returned
    /\ fetch.server.paginated
    /\ fetch.server.sizes = <<MaxPageLen, MaxPageLen, 1>>
    /\ Len(fetch.sent) = 3
    /\ Len(fetch.data) = 2 * MaxPageLen + 1

\* the number of answers after which the loop is to stop: the first page
\* that is empty or carries no cursor
Stop(server) ==
    CHOOSE k \in 1..Len(server.sizes) :
        /\ server.sizes[k] = 0 \/ k = Len(server.sizes)
        /\ \A i \in 1..(k - 1) : server.sizes[i] > 0

(***************************************************************************)
(* C15. The pagination loop issues no further request after an answer      *)
(* without a cursor or an answer whose data page is empty, even when that  *)
(* answer carries a cursor: every request but the last of a fetch was      *)
(* answered by a non-empty page with a cursor.                             *)
(***************************************************************************)
C15_StopsAtEmptyPage ==
    fetch.server.paginated => Len(fetch.sent) <= Stop(fetch.server)

\* the url names the channel c that was given
Named(c, url) ==
    \E i \in 1..Len(url.query) :
        url.query[i] = IF c.kind = "int" THEN Param("user_id", str(c.num))
                       ELSE IF isdigit(c.text) THEN Param("user_id", str(int(c.text)))
                       ELSE Param("user_login", c.text)

(***************************************************************************)
(* C19. For every non-empty sequence of at most 100 channel ids and names, *)
(* the request get_streams issues names every given channel: each id as a  *)
(* user_id parameter and each name as a user_login parameter.              *)
(***************************************************************************)
C19_EveryChannelNamed ==
    (fetch.op = "get_streams" /\ fetch.sent # <<>>)
        => \A i \in 1..Len(fetch.args) : Named(fetch.args[i], fetch.sent[1])

\* the parameters of a request that satisfy Test
Count(url, Test(_)) == Len(SelectSeq(url.query, Test))

(***************************************************************************)
(* C20. Every request of a paginated fetch carries exactly one page-size   *)
(* parameter and at most one 'after' parameter, whose value is the cursor  *)
(* of the page just before it (earlier cursors do not accumulate); and     *)
(* when the fetch returns, the caller's base url is what it was at the     *)
(* call.                                                                   *)
(***************************************************************************)
C20_RequestParameters ==
    /\ \A k \in 1..Len(fetch.sent) :
        /\ Count(fetch.sent[k], IsFirst) = 1
        /\ Count(fetch.sent[k], IsAfter) <= 1
        /\ k = 1 => Count(fetch.sent[k], IsAfter) = 0
        /\ k > 1 => SelectSeq(fetch.sent[k].query, IsAfter)
                        = <<Param("after", Answer(fetch.server, fetch.sent[k - 1]).cursor)>>
    /\ fetch.pc = "done" => fetch.url = fetch.call_url

\* the records held when request k of the aggregator was made
RECURSIVE Fetched(_)
Fetched(k) ==
    IF k <= 1 THEN 0
    ELSE Fetched(k - 1) + Len(AggAnswerOf(agg.server, agg.sent[k - 1]).data)

\* the least number of pages that hold n records
Pages(n) == (n + PAGE - 1) \div PAGE

(***************************************************************************)
(* C14. With a limit L, every physical request of the aggregator asks for  *)
(* first = min(100, L - alreadyFetched) records; the records held never    *)
(* exceed L and no request is in flight once L are held; against a server  *)
(* holding at least L records exactly L are returned, in ceil(L/100)       *)
(* requests.                                                               *)
(***************************************************************************)
C14_LimitRespected ==
    agg.limit # NoLimit =>
        /\ \A k \in 1..Len(agg.sent) :
            SelectSeq(agg.sent[k], IsFirst)
                = <<Param("first", str(min(100, agg.limit - Fetched(k))))>>
        /\ Len(agg.data) <= agg.limit
        /\ agg.pc = "calling" => Len(agg.data) < agg.limit
        /\ (/\ agg.pc = "done" /\ agg.outcome = "ok"
            /\ agg.server.total >= agg.limit)
               => /\ agg.data = [j \in 1..agg.limit |-> j]
                  /\ Len(agg.sent) = Pages(agg.limit)

\* 150 of 237 records in two requests, the second asking for 50
C14_Witness ==
    /\ agg.pc = "done" /\ agg.outcome = "ok"
    /\ agg.limit = 150
    /\ agg.server.total > 150
    /\ Len(agg.sent) = 2
    /\ Len(agg.data) = 150
    /\ Param("first", <<"5", "0">>) \in {agg.sent[2][i] : i \in 1..Len(agg.sent[2])}

(***************************************************************************)
(* C17. update(remaining = r) with 0 <= r <= capacity, r = 0 included,     *)
(* leaves tokens = capacity - r whatever the bucket held before, and the   *)
(* same update made again gives the same bucket.                           *)
(***************************************************************************)
C17_RemainingIsAuthoritative ==
    probe.remaining # NoHeader =>
        /\ bucket.tokens = bucket.limit - probe.remaining
        /\ update(bucket, probe.t, probe.reset, probe.remaining) = bucket

\* the server reports nothing remaining: the bucket is full
C17_Witness ==
    /\ probe.remaining = 0
    /\ probe.t > 0
    /\ bucket.tokens = bucket.limit
    /\ limited(bucket)

\* waitUntilReset returns for task t
Resumed(t) == req[t].pc = "waiting" /\ req'[t].pc # "waiting"

(***************************************************************************)
(* C21. A governed request that finds the bucket limited is eventually     *)
(* issued: waitUntilReset returns once the window reset time is reached,   *)
(* on its return the bucket has no tokens and is not limited, and the      *)
(* suspended attempt then performs its network call.                       *)
(***************************************************************************)
C21_WaitEndsInCall ==
    /\ \A t \in Tasks : (req[t].pc = "waiting") ~> (req[t].pc = "calling")
    /\ [][\A t \in Tasks :
            Resumed(t) => /\ now' >= req[t].wake
                          /\ bucket'.tokens = 0
                          /\ ~limited(bucket')
                          /\ req'[t].pc = "calling"
                          /\ req'[t].calls = req[t].calls + 1]_vars

\* the second call of a request, made on return from the wait
C21_Witness ==
    \E t \in Tasks :
        /\ req[t].pc = "calling"
        /\ req[t].waits = 1
        /\ req[t].calls = 2
        /\ req[t].wake > 0
        /\ now >= req[t].wake
        /\ bucket.tokens = 0

Supported == hook.request.topic \in DOMAIN NOTIFICATION_TYPE_BY_TOPIC

(***************************************************************************)
(* C22. For a notification on a supported topic, process_notification is   *)
(* invoked exactly once on every registered dispatcher and the answer is   *)
(* 202; an exception raised in the event callback of one instance goes to  *)
(* the webhook_notification_error of that instance, and neither keeps the  *)
(* other instances from the notification nor changes the answer.  A        *)
(* request whose JSON body has no 'data' key is answered 400 and reaches   *)
(* no instance.                                                            *)
(***************************************************************************)
C22_EveryDispatcherNotified ==
    /\ \A i \in Dispatchers :
        /\ hook.notified[i] <= 1
        /\ hook.errors[i] = IF hook.raised[i] THEN 1 ELSE 0
        /\ i \notin hook.registered => hook.notified[i] = 0
    /\ (hook.pc = "done" /\ Supported /\ hook.request.json # "no data key")
        => /\ hook.answer = "202"
           /\ \A i \in hook.registered : hook.notified[i] = 1
    /\ (hook.pc = "done" /\ Supported /\ hook.request.json = "no data key")
        => /\ hook.answer = "400"
           /\ \A i \in Dispatchers : hook.notified[i] = 0

\* the callback of the first instance raised, the second instance was still notified
C22_Witness ==
    /\ hook.pc = "done"
    /\ hook.answer = "202"
    /\ Len(hook.order) = 2
    /\ hook.raised[hook.order[1]]
    /\ hook.event[hook.order[1]] = "event_stream_updated"
    /\ hook.errors[hook.order[1]] = 1
    /\ hook.notified[hook.order[2]] = 1
    /\ ~hook.raised[hook.order[2]]

\* a send to channel c that reached the limiter right after one that was rejected there
SendAfterRejection(c) ==
    /\ Governed /\ call.channel = c /\ result.status = "RateLimited"
    /\ ChatStep /\ Governed' /\ call'.channel = c

(***************************************************************************)
(* C23. Once a send to a destination was rejected with the rate-limit      *)
(* error, a further send to it made before the window reset time is        *)
(* rejected as well and writes nothing; and in no reachable state does the *)
(* token count of a destination's bucket exceed its limit.                 *)
(***************************************************************************)
C23_RejectionPersists ==
    /\ [](\A c \in DOMAIN buckets : buckets[c].tokens <= buckets[c].limit)
    /\ [][\A c \in Channels :
            (SendAfterRejection(c) /\ now' < buckets[c]._reset)
                => (result'.status = "RateLimited" /\ ws' = <<>>)]_vars

\* a step that is a decorated API call
ApiStep == now' = now /\ rates' # rates

(***************************************************************************)
(* C24. The module-level RateBucket of http.py always holds between 0 and  *)
(* 30 tokens; within one 60-second window at most 30 decorated calls get   *)
(* past update_tokens; and once update_tokens has raised, a further        *)
(* decorated call made before the refresh time raises as well and its      *)
(* wrapped request is not invoked.                                         *)
(***************************************************************************)
C24_RatesWithinBounds ==
    /\ [](0 <= rates.tokens /\ rates.tokens <= 30 /\ apiCalls <= 30)
    /\ [][(apiResult = "RateLimitExceeded" /\ ApiStep /\ now < rates.refresh)
            => (apiResult' = "RateLimitExceeded" /\ apiCalls' = apiCalls)]_vars

\* the governed network calls in flight
InFlight == {t \in Tasks : req[t].pc = "calling" /\ req[t].utilize}

(***************************************************************************)
(* C25. With governed requests running concurrently on one session, the    *)
(* quota is still respected: the calls the bucket has counted in its       *)
(* current window and the calls in flight never number more than the       *)
(* capacity, and no call is issued while the bucket is limited.            *)
(***************************************************************************)
C25_ConcurrentQuota ==
    /\ [](bucket._reset > now => bucket.tokens + Cardinality(InFlight) <= bucket.limit)
    /\ [][\A t \in Tasks : (Issued(t) /\ req'[t].utilize) => ~limited(bucket')]_vars

\* the buckets of the destinations other than c are what they were
OthersUntouched(c) ==
    /\ DOMAIN buckets' = DOMAIN buckets \cup {c}
    /\ \A d \in DOMAIN buckets : d # c => buckets'[d] = buckets[d]

(***************************************************************************)
(* C26. With send coroutines running concurrently on one event loop, the   *)
(* lookup, the token update and the limit check of a send run without      *)
(* suspension, so no token update is lost: the bucket of a destination has *)
(* counted exactly the sends to it that passed validation in its window,   *)
(* and a send to one destination never changes the bucket of another.      *)
(***************************************************************************)
C26_NoLostUpdate ==
    /\ [](\A c \in DOMAIN buckets : buckets[c].tokens = senders.passed[c])
    /\ [][\A c \in Channels :
            (ChatStep /\ Governed' /\ call'.channel = c /\ senders'.passed # senders.passed)
                => OthersUntouched(c)]_vars
    /\ [][\A t \in Tasks :
            (senders.task[t].pc = "writing" /\ senders'.task[t].pc = "idle")
                => buckets' = buckets]_vars

\* two sends to one destination are suspended in ws.send, both counted
C26_Witness ==
    /\ \A t \in Tasks : senders.task[t].pc = "writing" /\ senders.task[t].channel = "c1"
    /\ buckets["c1"].tokens = 2
    /\ senders.passed["c1"] = 2
    /\ "c2" \in DOMAIN buckets
    /\ buckets["c2"].tokens = 1

====
